---- MODULE Spec2Model ----
(***************************************************************************)
(* botagent: bot detection of user-agent strings against a pattern list.   *)
(*                                                                         *)
(* The model covers the process-wide matcher cache (REGEX, a OnceCell),    *)
(* the three queries that go through it (init_pattern, is_bot,             *)
(* is_bot_match), the three per-pattern queries that compile on every call *)
(* (is_bot_matches, is_bot_pattern, is_bot_patterns) and the custom        *)
(* predicate factory create_is_bot.                                        *)
(*                                                                         *)
(* Strings are sequences of one-character tokens.  A pattern is a sequence *)
(* of tokens of a small PCRE fragment: letters, "(" ")" groups and "|"     *)
(* alternation.  The contents of the file at json_path are an input of the *)
(* step that reads the file: a missing file, a file that is not a JSON     *)
(* array of strings, or a list of patterns.                                *)
(***************************************************************************)
EXTENDS Naturals, Sequences, FiniteSets, TLC

\* ------------------------------------------------------------- bounds
NumThreads == 2
MaxPatterns == 2

Threads == 1..NumThreads

\* ------------------------------------------------------------- values
None == <<>>
Some(x) == <<x>>

\* Result<_, BotDetectorError>: Ok(v), or Err of "Io", "JsonParse" or
\* "RegexCompile"; Panic(k) is the panic! of init_pattern on the error k.
Ok(v) == [tag |-> "Ok", val |-> v]
Err(k) == [tag |-> "Err", val |-> k]
Panic(k) == [tag |-> "Panic", val |-> k]

\* ------------------------------------------------------------- inputs
Patterns == { <<"a">>, <<"B">>, <<"(">> }

ExtraLists ==
  { << <<>> >>, << <<"a">>, <<>> >>, << <<"(">>, <<")">> >> }

PatternLists ==
  UNION { [1..n -> Patterns] : n \in 0..MaxPatterns } \cup ExtraLists

NoFile == [kind |-> "missing", patterns |-> <<>>]
Malformed == [kind |-> "malformed", patterns |-> <<>>]
ListFile(l) == [kind |-> "list", patterns |-> l]

Sources == {NoFile, Malformed} \cup { ListFile(l) : l \in PatternLists }

UserAgents == { <<>>, <<"a", "b">>, <<"b">> }

\* ------------------------------------------------------------- regex engine
Lower(c) == CASE c = "A" -> "a" [] c = "B" -> "b" [] OTHER -> c

CharEq(p, c, caseless) == IF caseless THEN Lower(p) = Lower(c) ELSE p = c

RECURSIVE Balanced(_, _)
Balanced(toks, depth) ==
  IF toks = <<>> THEN depth = 0
  ELSE IF Head(toks) = "(" THEN Balanced(Tail(toks), depth + 1)
  ELSE IF Head(toks) = ")" THEN depth > 0 /\ Balanced(Tail(toks), depth - 1)
  ELSE Balanced(Tail(toks), depth)

\* Index of the first "|" outside every group, 0 when there is none.
RECURSIVE TopBarFrom(_, _, _)
TopBarFrom(toks, k, depth) ==
  IF k > Len(toks) THEN 0
  ELSE IF toks[k] = "|" /\ depth = 0 THEN k
  ELSE IF toks[k] = "(" THEN TopBarFrom(toks, k + 1, depth + 1)
  ELSE IF toks[k] = ")" THEN TopBarFrom(toks, k + 1, depth - 1)
  ELSE TopBarFrom(toks, k + 1, depth)

TopBar(toks) == TopBarFrom(toks, 1, 0)

\* Index of the ")" closing the "(" at index 1.
RECURSIVE CloseFrom(_, _, _)
CloseFrom(toks, k, depth) ==
  IF toks[k] = ")" /\ depth = 1 THEN k
  ELSE IF toks[k] = ")" THEN CloseFrom(toks, k + 1, depth - 1)
  ELSE IF toks[k] = "(" THEN CloseFrom(toks, k + 1, depth + 1)
  ELSE CloseFrom(toks, k + 1, depth)

CloseIdx(toks) == CloseFrom(toks, 2, 1)

\* Backtracking match of a compiled pattern at offset i of subject s: the end
\* offsets of the matches, in the order the engine tries them.
RECURSIVE MatchAlt(_, _, _, _)
RECURSIVE MatchCat(_, _, _, _)
RECURSIVE MatchRest(_, _, _, _)

MatchAlt(re, s, i, caseless) ==
  LET k == TopBar(re)
  IN IF k = 0 THEN MatchCat(re, s, i, caseless)
     ELSE MatchCat(SubSeq(re, 1, k - 1), s, i, caseless)
            \o MatchAlt(SubSeq(re, k + 1, Len(re)), s, i, caseless)

MatchCat(cat, s, i, caseless) ==
  IF cat = <<>> THEN <<i>>
  ELSE IF Head(cat) = "("
    THEN LET m == CloseIdx(cat)
         IN MatchRest(MatchAlt(SubSeq(cat, 2, m - 1), s, i, caseless),
                      SubSeq(cat, m + 1, Len(cat)), s, caseless)
  ELSE IF i < Len(s) /\ CharEq(Head(cat), s[i + 1], caseless)
    THEN MatchCat(Tail(cat), s, i + 1, caseless)
  ELSE <<>>

MatchRest(ends, rest, s, caseless) ==
  IF ends = <<>> THEN <<>>
  ELSE MatchCat(rest, s, Head(ends), caseless)
         \o MatchRest(Tail(ends), rest, s, caseless)

\* Regex::new(pattern): case as authored, unless the pattern opens with (?i).
RegexNew(toks) ==
  LET flagged == toks # <<>> /\ Head(toks) = "(?i)"
      body == IF flagged THEN Tail(toks) ELSE toks
  IN IF Balanced(body, 0)
     THEN Ok([pat |-> body, caseless |-> flagged])
     ELSE Err("RegexCompile")

\* RegexBuilder::new().caseless(true).build(pattern)
BuildCaseless(toks) ==
  IF Balanced(toks, 0)
  THEN Ok([pat |-> toks, caseless |-> TRUE])
  ELSE Err("RegexCompile")

\* regex.is_match(subject): a match at some offset.
IsMatch(regex, s) ==
  \E i \in 0..Len(s) : MatchAlt(regex.pat, s, i, regex.caseless) # <<>>

\* regex.captures(subject), group 0: the first match at the leftmost offset.
Captures0(regex, s) ==
  IF ~IsMatch(regex, s) THEN None
  ELSE LET i == CHOOSE j \in 0..Len(s) :
                  /\ MatchAlt(regex.pat, s, j, regex.caseless) # <<>>
                  /\ \A h \in 0..Len(s) :
                       h < j => MatchAlt(regex.pat, s, h, regex.caseless) = <<>>
           e == Head(MatchAlt(regex.pat, s, i, regex.caseless))
       IN Some(SubSeq(s, i + 1, e))

\* ------------------------------------------------------------- pattern source
\* fs::read_to_string(json_path)? followed by serde_json::from_str(..)?
ReadPatterns(src) ==
  IF src.kind = "missing" THEN Err("Io")
  ELSE IF src.kind = "malformed" THEN Err("JsonParse")
  ELSE Ok(src.patterns)

\* patterns.0.join("|")
RECURSIVE Join(_)
Join(list) ==
  IF list = <<>> THEN <<>>
  ELSE IF Len(list) = 1 THEN list[1]
  ELSE list[1] \o <<"|">> \o Join(Tail(list))

\* generate_pattern with the caseless(true) of the builder left out.
GeneratePatternCaseSensitive(src) ==
  LET patterns == ReadPatterns(src)
  IN IF patterns.tag = "Err" THEN patterns
     ELSE RegexNew(Join(patterns.val))

\* generate_pattern closing every pattern with the separator.
GeneratePatternTrailing(src) ==
  LET patterns == ReadPatterns(src)
  IN IF patterns.tag = "Err" THEN patterns
     ELSE BuildCaseless(IF patterns.val = <<>> THEN <<>>
                        ELSE Join(patterns.val) \o <<"|">>)

GeneratePattern(src) ==
  LET patterns == ReadPatterns(src)
  IN IF patterns.tag = "Err" THEN patterns
     ELSE BuildCaseless(Join(patterns.val))

\* ------------------------------------------------------------- queries
\* What is_bot, is_bot_match and init_pattern do with the matcher that
\* init_pattern handed them.
IsBotTail(regex, ua) == Ok(IsMatch(regex, ua))

IsBotMatchTail(regex, ua) == Ok(Captures0(regex, ua))

CachedOps == {"init_pattern", "is_bot", "is_bot_match"}

\* The calls of the cached path: init_pattern takes no user agent.
CachedCalls ==
  { [op |-> "init_pattern", ua |-> <<>>] }
    \cup { [op |-> o, ua |-> u] : o \in {"is_bot", "is_bot_match"}, u \in UserAgents }

CachedResult(op, regex, ua) ==
  CASE op = "init_pattern" -> Ok(regex)
    [] op = "is_bot" -> IsBotTail(regex, ua)
    [] op = "is_bot_match" -> IsBotMatchTail(regex, ua)

\* is_bot_matches: filter_map over the list, each pattern compiled as
\* "(?i)" + pattern, a pattern that does not compile dropped.
\* is_bot_matches compiling each pattern as authored, the "(?i)" left out.
RECURSIVE MatchesLoopAuthored(_, _)
MatchesLoopAuthored(list, ua) ==
  IF list = <<>> THEN <<>>
  ELSE LET regex == RegexNew(Head(list))
           keep == regex.tag = "Ok" /\ IsMatch(regex.val, ua)
       IN (IF keep THEN <<Head(list)>> ELSE <<>>)
            \o MatchesLoopAuthored(Tail(list), ua)

RECURSIVE MatchesLoop(_, _)
MatchesLoop(list, ua) ==
  IF list = <<>> THEN <<>>
  ELSE LET regex == RegexNew(<<"(?i)">> \o Head(list))
           keep == regex.tag = "Ok" /\ IsMatch(regex.val, ua)
       IN (IF keep THEN <<Head(list)>> ELSE <<>>) \o MatchesLoop(Tail(list), ua)

IsBotMatches(ua, src) ==
  LET patterns == ReadPatterns(src)
  IN IF patterns.tag = "Err" THEN patterns
     ELSE Ok(MatchesLoop(patterns.val, ua))

\* is_bot_pattern: the for loop, Regex::new(&pattern)? leaving on the first
\* compile error, return on the first match.
\* is_bot_pattern skipping a pattern that does not compile.
RECURSIVE PatternLoopSkipping(_, _)
PatternLoopSkipping(list, ua) ==
  IF list = <<>> THEN Ok(None)
  ELSE LET regex == RegexNew(Head(list))
       IN IF regex.tag = "Ok" /\ IsMatch(regex.val, ua) THEN Ok(Some(Head(list)))
          ELSE PatternLoopSkipping(Tail(list), ua)

RECURSIVE PatternLoop(_, _)
PatternLoop(list, ua) ==
  IF list = <<>> THEN Ok(None)
  ELSE LET regex == RegexNew(Head(list))
       IN IF regex.tag = "Err" THEN regex
          ELSE IF IsMatch(regex.val, ua) THEN Ok(Some(Head(list)))
          ELSE PatternLoop(Tail(list), ua)

IsBotPattern(ua, src) ==
  LET patterns == ReadPatterns(src)
  IN IF patterns.tag = "Err" THEN patterns
     ELSE PatternLoop(patterns.val, ua)

\* is_bot_patterns: filter_map over the list, each pattern compiled as
\* authored, a pattern that does not compile dropped.
RECURSIVE PatternsLoop(_, _)
PatternsLoop(list, ua) ==
  IF list = <<>> THEN <<>>
  ELSE LET regex == RegexNew(Head(list))
           keep == regex.tag = "Ok" /\ IsMatch(regex.val, ua)
       IN (IF keep THEN <<Head(list)>> ELSE <<>>) \o PatternsLoop(Tail(list), ua)

IsBotPatterns(ua, src) ==
  LET patterns == ReadPatterns(src)
  IN IF patterns.tag = "Err" THEN patterns
     ELSE Ok(PatternsLoop(patterns.val, ua))

PerPatternOps == {"is_bot_matches", "is_bot_pattern", "is_bot_patterns"}

PerPatternResult(op, ua, src) ==
  CASE op = "is_bot_matches" -> IsBotMatches(ua, src)
    [] op = "is_bot_pattern" -> IsBotPattern(ua, src)
    [] op = "is_bot_patterns" -> IsBotPatterns(ua, src)

\* The closure create_is_bot(custom_pattern) returns, applied to user_agent.
\* create_is_bot without the test for an empty user agent.
CreateIsBotAnyInput(custom_pattern, ua) ==
  IsMatch(custom_pattern, ua)

CreateIsBot(custom_pattern, ua) ==
  ua # <<>> /\ IsMatch(custom_pattern, ua)

\* Patterns a caller compiles with Regex::new(..).unwrap() for create_is_bot.
CustomPatterns ==
  { <<>>, <<"B">>, <<"(?i)", "a">>, <<"(", "a", "|", ")", "b">> }

\* ------------------------------------------------------------- tables
\* The pure functions above, tabulated once over the inputs of the model.
Matchers ==
  { GeneratePattern(src).val : src \in { s \in Sources : GeneratePattern(s).tag = "Ok" } }

GeneratePatternOf == [src \in Sources |-> GeneratePattern(src)]

CachedResultOf ==
  [call \in CachedCalls, regex \in Matchers |-> CachedResult(call.op, regex, call.ua)]

PerPatternResultOf ==
  [op \in PerPatternOps, ua \in UserAgents, src \in Sources |->
     PerPatternResult(op, ua, src)]

\* ------------------------------------------------------------- state
VARIABLES
  REGEX,   \* the value of the OnceCell: None or Some(matcher)
  cell,    \* the OnceCell's state: "Incomplete", "Running" or "Complete"
  pc,      \* each thread: "idle", "running" (inside the init closure),
           \* "waiting" (blocked in get_or_init while another thread runs) or
           \* "retrying" (inside the init closure after having waited)
  last,    \* the call that completed most recently
  failed,  \* history: an execution of generate_pattern by get_or_init failed
  built    \* history: how many times a matcher was stored in REGEX

vars == <<REGEX, cell, pc, last, failed, built>>

NoSource == [kind |-> "none", patterns |-> <<>>]

Completed(op, ua, src, res, path, seen) ==
  [op |-> op, ua |-> ua, src |-> src, res |-> res, path |-> path, seen |-> seen]

Init ==
  /\ REGEX = None
  /\ cell = "Incomplete"
  /\ pc = [t \in Threads |-> "idle"]
  /\ last = Completed("none", <<>>, NoSource, Ok(FALSE), "none", None)
  /\ failed = FALSE
  /\ built = 0

\* ------------------------------------------------------------- cached path
\* init_pattern / is_bot / is_bot_match with the cell complete: get_or_init
\* returns the stored matcher, the closure is not run.
\* A cache keyed by the pattern source: a call naming another compilable
\* source replaces the stored matcher.
HitKeyed(callers, call, src) ==
  /\ cell = "Complete"
  /\ \E t \in callers : pc[t] = "idle"
  /\ LET generated == GeneratePatternOf[src]
         regex == IF generated.tag = "Ok" THEN generated.val ELSE REGEX[1]
     IN /\ REGEX' = Some(regex)
        /\ last' = Completed(call.op, call.ua, src, CachedResultOf[call, regex],
                             "hit", Some(regex))
  /\ UNCHANGED <<cell, pc, failed, built>>

Hit(callers, call, src) ==
  /\ cell = "Complete"
  /\ \E t \in callers : pc[t] = "idle"
  /\ last' = Completed(call.op, call.ua, src, CachedResultOf[call, REGEX[1]],
                       "hit", REGEX)
  /\ UNCHANGED <<REGEX, cell, pc, failed, built>>

\* get_or_init with the cell not complete: the caller either claims the
\* initialization or blocks behind the thread that runs it.
\* get_or_init claiming the initialization without looking for a thread
\* that already runs it.
BeginNoLock(t) ==
  /\ pc[t] = "idle"
  /\ cell # "Complete"
  /\ cell' = "Running"
  /\ pc' = [pc EXCEPT ![t] = "running"]
  /\ UNCHANGED <<REGEX, last, failed, built>>

Begin(t) ==
  /\ pc[t] = "idle"
  /\ cell # "Complete"
  /\ IF cell = "Incomplete"
     THEN cell' = "Running" /\ pc' = [pc EXCEPT ![t] = "running"]
     ELSE cell' = cell /\ pc' = [pc EXCEPT ![t] = "waiting"]
  /\ UNCHANGED <<REGEX, last, failed, built>>

\* The closure of init_pattern: generate_pattern(json_path), its result
\* stored, or panic!; then the rest of the calling query.
\* A failed initialization that leaves the cell marked complete.
RunInitPoison(t, call, src) ==
  /\ pc[t] \in {"running", "retrying"}
  /\ LET generated == GeneratePatternOf[src]
     IN IF generated.tag = "Ok"
        THEN /\ REGEX' = Some(generated.val)
             /\ built' = built + 1
             /\ failed' = failed
             /\ last' = Completed(call.op, call.ua, src,
                                  CachedResultOf[call, generated.val],
                                  "init", Some(generated.val))
        ELSE /\ REGEX' = REGEX
             /\ built' = built
             /\ failed' = TRUE
             /\ last' = Completed(call.op, call.ua, src, Panic(generated.val),
                                  "init", None)
  /\ cell' = "Complete"
  /\ pc' = [pc EXCEPT ![t] = "idle"]

RunInit(t, call, src) ==
  /\ pc[t] \in {"running", "retrying"}
  /\ LET generated == GeneratePatternOf[src]
     IN IF generated.tag = "Ok"
        THEN /\ REGEX' = Some(generated.val)
             /\ cell' = "Complete"
             /\ built' = built + 1
             /\ failed' = failed
             /\ last' = Completed(call.op, call.ua, src,
                                  CachedResultOf[call, generated.val],
                                  "init", Some(generated.val))
        ELSE /\ REGEX' = REGEX
             /\ cell' = "Incomplete"
             /\ built' = built
             /\ failed' = TRUE
             /\ last' = Completed(call.op, call.ua, src, Panic(generated.val),
                                  "init", None)
  /\ pc' = [pc EXCEPT ![t] = "idle"]

\* A blocked caller finds the cell complete: get_or_init returns the stored
\* matcher and the query finishes.
WakeReturn(t, call, src) ==
  /\ pc[t] = "waiting"
  /\ cell = "Complete"
  /\ last' = Completed(call.op, call.ua, src, CachedResultOf[call, REGEX[1]],
                       "waited", REGEX)
  /\ pc' = [pc EXCEPT ![t] = "idle"]
  /\ UNCHANGED <<REGEX, cell, failed, built>>

\* A blocked caller finds the cell incomplete again (the initializing thread
\* panicked): it claims the initialization with its own closure.
WakeRetry(t) ==
  /\ pc[t] = "waiting"
  /\ cell = "Incomplete"
  /\ cell' = "Running"
  /\ pc' = [pc EXCEPT ![t] = "retrying"]
  /\ UNCHANGED <<REGEX, last, failed, built>>

\* ------------------------------------------------------------- uncached path
\* A per-pattern query that goes through init_pattern first.
PerPatternViaCache(callers, op, ua, src) ==
  /\ \E t \in callers : pc[t] = "idle"
  /\ LET generated == GeneratePatternOf[src]
         fill == cell = "Incomplete" /\ generated.tag = "Ok"
     IN /\ REGEX' = IF fill THEN Some(generated.val) ELSE REGEX
        /\ cell' = IF fill THEN "Complete" ELSE cell
        /\ built' = IF fill THEN built + 1 ELSE built
  /\ last' = Completed(op, ua, src, PerPatternResultOf[op, ua, src], "direct", None)
  /\ UNCHANGED <<pc, failed>>

PerPattern(callers, op, ua, src) ==
  /\ \E t \in callers : pc[t] = "idle"
  /\ last' = Completed(op, ua, src, PerPatternResultOf[op, ua, src], "direct", None)
  /\ UNCHANGED <<REGEX, cell, pc, failed, built>>

Custom(callers, pattern, ua) ==
  /\ \E t \in callers : pc[t] = "idle"
  /\ RegexNew(pattern).tag = "Ok"
  /\ LET custom_pattern == RegexNew(pattern).val
     IN last' = Completed("create_is_bot", ua, NoSource,
                          Ok(CreateIsBot(custom_pattern, ua)),
                          "direct", Some(custom_pattern))
  /\ UNCHANGED <<REGEX, cell, pc, failed, built>>

\* ------------------------------------------------------------- specifications
\* One caller: every query of the library, in any order.
Caller == {1}

Next ==
  \/ \E call \in CachedCalls, src \in Sources : Hit(Caller, call, src)
  \/ \E t \in Caller : Begin(t)
  \/ \E t \in Caller, call \in CachedCalls, src \in Sources : RunInit(t, call, src)
  \/ \E op \in PerPatternOps, ua \in UserAgents, src \in Sources :
       PerPattern(Caller, op, ua, src)
  \/ \E pattern \in CustomPatterns, ua \in UserAgents : Custom(Caller, pattern, ua)

Spec == Init /\ [][Next]_vars

\* NumThreads callers of the cached path, their steps interleaved.  The files
\* they name hold at most one pattern.
ConcSources ==
  { src \in Sources : Len(src.patterns) <= 1 }

NextConc ==
  \/ \E call \in CachedCalls, src \in ConcSources : Hit(Threads, call, src)
  \/ \E t \in Threads : Begin(t)
  \/ \E t \in Threads, call \in CachedCalls, src \in ConcSources :
       RunInit(t, call, src)
  \/ \E t \in Threads, call \in CachedCalls, src \in ConcSources :
       WakeReturn(t, call, src)
  \/ \E t \in Threads : WakeRetry(t)

SpecConc == Init /\ [][NextConc]_vars

\* ------------------------------------------------------------- vocabulary
Letters == {"a", "b", "A", "B"}

\* A pattern with no metacharacter: it stands for its own text.
IsLiteral(p) == \A i \in 1..Len(p) : p[i] \in Letters

\* s contains x, ignoring letter case.
ContainsIgnoringCase(s, x) ==
  \E i \in 0..Len(s) :
    /\ i + Len(x) <= Len(s)
    /\ \A j \in 1..Len(x) : Lower(s[i + j]) = Lower(x[j])

\* The pattern compiles on its own, as authored.
Compiles(p) == RegexNew(p).tag = "Ok"

MatchesAsAuthored(p, ua) == Compiles(p) /\ IsMatch(RegexNew(p).val, ua)

MatchesIgnoringCase(p, ua) ==
  BuildCaseless(p).tag = "Ok" /\ IsMatch(BuildCaseless(p).val, ua)

\* A list is non-degenerate when it is not empty and each of its patterns
\* compiles on its own and does not match the empty string.
NonDegenerate(list) ==
  /\ list # <<>>
  /\ \A i \in 1..Len(list) : Compiles(list[i]) /\ ~MatchesIgnoringCase(list[i], <<>>)

\* The matcher is the one generate_pattern builds from src.
BuiltFrom(seen, src) ==
  /\ seen # None
  /\ GeneratePatternOf[src] = Ok(seen[1])

\* ------------------------------------------------------------- C1
\* C1: once REGEX holds a matcher it never changes, and every later
\* init_pattern / is_bot / is_bot_match call, whatever source it names
\* (another list, a missing or malformed file, a list that does not compile),
\* succeeds and answers from that stored matcher alone.
C1_HitAnswer ==
  last.path = "hit" =>
    /\ last.res.tag = "Ok"
    /\ last.seen = REGEX
    /\ REGEX # None
    /\ last.res = CachedResult(last.op, REGEX[1], last.ua)

C1_InitOnce ==
  /\ [][REGEX # None => REGEX' = REGEX]_vars
  /\ []C1_HitAnswer

\* A call naming a source that cannot even be read is answered from the cache.
C1_Witness ==
  /\ last.path = "hit"
  /\ last.op = "is_bot"
  /\ last.src = NoFile
  /\ last.res = Ok(TRUE)

\* ------------------------------------------------------------- C2
\* The threads inside the init closure.
InClosure == { t \in Threads : pc[t] \in {"running", "retrying"} }

\* C2 as claimed: callers that overlap on an empty cache see generate_pattern
\* executed exactly once (a caller that blocked behind a running
\* initialization never has to run the closure itself), and every caller that
\* returns holds the stored matcher.
C2_Returned ==
  (last.op \in CachedOps /\ last.res.tag = "Ok") =>
    (REGEX # None /\ last.seen = REGEX)

C2_Original ==
  /\ \A t \in Threads : pc[t] # "retrying"
  /\ C2_Returned

\* C2 as amended: at most one thread at a time runs generate_pattern, only
\* while the cache is empty, and a matcher is stored at most once; the cell is
\* complete exactly when REGEX holds a matcher built by generate_pattern, and
\* every caller that returns holds that matcher.  (An execution that fails
\* panics and leaves the cell incomplete, and a caller that was blocked behind
\* it then executes generate_pattern again, on its own source.)
C2_ComputeOnce ==
  /\ Cardinality(InClosure) <= 1
  /\ (cell = "Running") = (InClosure # {})
  /\ (cell = "Complete") = (REGEX # None)
  /\ (\E t \in Threads : pc[t] = "retrying") => failed
  /\ built = (IF REGEX = None THEN 0 ELSE 1)
  /\ REGEX # None => REGEX[1] \in Matchers
  /\ C2_Returned

\* A caller that blocked behind another thread's initialization returned.
C2_Witness ==
  /\ last.path = "waited"
  /\ last.res.tag = "Ok"
  /\ last.seen = REGEX

\* ------------------------------------------------------------- C3
\* C3: a call that finds the cache empty and whose source cannot be read,
\* parsed or compiled returns that failure to its caller as an Err value.
C3_Original ==
  (last.op \in CachedOps /\ last.path = "init"
     /\ GeneratePattern(last.src).tag = "Err") =>
    last.res = GeneratePattern(last.src)

\* ------------------------------------------------------------- C4
\* C4: a failed initialization stores nothing: REGEX is empty or holds a
\* matcher generate_pattern built, the cell is not complete after the failing
\* call, and the call that later initializes the cache fills it from its own
\* source.
C4_FailedInitStoresNothing ==
  /\ REGEX = None \/ REGEX[1] \in Matchers
  /\ (cell = "Complete") = (REGEX # None)
  /\ last.res.tag = "Panic" =>
       /\ REGEX = None
       /\ cell # "Complete"
       /\ failed
       /\ GeneratePattern(last.src).tag = "Err"
  /\ (last.path = "init" /\ last.res.tag = "Ok") => BuiltFrom(REGEX, last.src)

\* After a failed initialization a later call filled the cache.
C4_Witness ==
  /\ failed
  /\ last.path = "init"
  /\ last.res.tag = "Ok"
  /\ REGEX # None

EmptyAnswer(op) == IF op = "is_bot" THEN Ok(FALSE) ELSE Ok(None)

FirstDeciding(P, ua) ==
  LET deciding == { i \in 1..Len(P) : ~Compiles(P[i]) \/ MatchesAsAuthored(P[i], ua) }
  IN IF deciding = {} THEN 0
     ELSE CHOOSE i \in deciding : \A j \in deciding : i <= j

KeptIgnoringCase(P, ua) == SelectSeq(P, LAMBDA p : MatchesIgnoringCase(p, ua))

KeptAsAuthored(P, ua) == SelectSeq(P, LAMBDA p : MatchesAsAuthored(p, ua))

C9_CustomPredicate ==
  last.op = "create_is_bot" =>
    /\ last.seen # None
    /\ last.res.tag = "Ok"
    /\ last.ua = <<>> => last.res.val = FALSE
    /\ last.ua # <<>> =>
         last.res.val = IsMatch(last.seen[1], last.ua)

\* The matcher matches the empty string, the cache is set, the answer is false.
C9_Witness ==
  /\ last.op = "create_is_bot"
  /\ last.ua = <<>>
  /\ IsMatch(last.seen[1], <<>>)
  /\ REGEX # None
  /\ last.res = Ok(FALSE)

\* ------------------------------------------------------------- C10
\* C10: is_bot_matches, is_bot_pattern and is_bot_patterns neither change nor
\* read the cache: the step that completes one leaves REGEX and the cell as
\* they were, and its result is the one the source it named gives, whatever
\* the cache holds.
C10_OwnSource ==
  last.op \in PerPatternOps =>
    /\ last.seen = None
    /\ last.res = PerPatternResult(last.op, last.ua, last.src)

C10_CacheUntouched ==
  /\ [][(last'.op \in PerPatternOps /\ last' # last)
          => UNCHANGED <<REGEX, cell, pc, built>>]_vars
  /\ []C10_OwnSource

\* A per-pattern query on a source other than the one the cache was set from.
C10_Witness ==
  /\ last.op \in PerPatternOps
  /\ REGEX # None
  /\ last.src.kind = "list"
  /\ ~BuiltFrom(REGEX, last.src)
  /\ last.res.tag = "Ok"
  /\ last.res.val # <<>>

====
